---- MODULE Spec2Model ----
(***************************************************************************)
(* Model of src/app.py: the lifting-plan PDF generator.                    *)
(*                                                                         *)
(*   - field extraction from the template's widget annotations             *)
(*   - the value overlay (_draw_values_overlay)                            *)
(*   - template flattening (flatten_template_with_values)                  *)
(*   - the annex page layout (build_annex_page)                            *)
(*   - the final merge (merge_writer_and_annexes)                          *)
(*   - the "generate" button handler, one script run per request           *)
(*                                                                         *)
(* Strings are sequences of one-character strings, so that strip("()")     *)
(* and os.path.splitext act on characters.  A Python value that is None    *)
(* or empty is the empty sequence: the code only ever tests truthiness.    *)
(* Overlay lengths are in quarter points (1 pt = 4), annex lengths in      *)
(* units of 12/127 pt (1 cm = 300, 12 pt = 127), which makes every layout  *)
(* constant of the source an integer; quotients are exact fractions.       *)
(***************************************************************************)
EXTENDS Integers, Sequences, FiniteSets, TLC

VARIABLES
    template,     \* template_bytes: the pages of the template PDF
    fields,       \* module-level list `fields`
    ui_values,    \* dict ui_values (field name -> text typed)
    images_up,    \* uploaded files, in upload order
    pc,           \* position of the script run
    writer,       \* pages of the flattened writer
    annex_pdfs,   \* list annex_pdfs
    idx,          \* position of the annex loop in images_up
    outcome,      \* what the request showed: download or error
    track,        \* history: are earlier requests remembered
    first,        \* history: inputs and outcome of the first finished request
    ov_in,        \* argument of _draw_values_overlay under SpecOverlay
    ov_out,       \* its result
    an_in,        \* arguments of build_annex_page under SpecAnnex
    an_out        \* its result

vars == <<template, fields, ui_values, images_up, pc, writer, annex_pdfs, idx,
          outcome, track, first, ov_in, ov_out, an_in, an_out>>

pipeVars == <<template, fields, ui_values, images_up, pc, writer, annex_pdfs,
              idx, outcome, track, first>>

----------------------------------------------------------------------------
(* Bounds of the model *)

MaxPages == 2        \* pages of a template
MaxImages == 3       \* uploaded images per request
ReplayPages == 1     \* pages of a template when requests are compared
ReplayImages == 2    \* uploaded images per request when requests are compared
MaxAnnots == 2       \* annotations per page in the extraction scan
ScanPages == 2       \* pages of a template in the extraction scan
MaxFields == 3       \* fields handed to one overlay
MaxTitle == 4        \* characters of an annex title
MaxDim == 5          \* pixels per image side
MaxLines == 4        \* lines the explanatory paragraph may wrap to

----------------------------------------------------------------------------
(* Generic helpers *)

Range(s) == {s[i] : i \in 1..Len(s)}

SeqsUpTo(S, n) == UNION {[1..k -> S] : k \in 0..n}

NonEmptySeqsUpTo(S, n) == UNION {[1..k -> S] : k \in 1..n}

Min(a, b) == IF a <= b THEN a ELSE b

Max(a, b) == IF a >= b THEN a ELSE b

RECURSIVE Gcd(_, _)
Gcd(a, b) == IF b = 0 THEN a ELSE Gcd(b, a % b)

Abs(a) == IF a < 0 THEN -a ELSE a

(* Exact fractions n/d with d > 0, kept in lowest terms. *)
Frac(n, d) ==
    LET s == IF d < 0 THEN -1 ELSE 1
        g == Gcd(Abs(n), Abs(d))
    IN  [n |-> (s * n) \div g, d |-> (s * d) \div g]

FInt(k) == [n |-> k, d |-> 1]
FAdd(a, b) == Frac(a.n * b.d + b.n * a.d, a.d * b.d)
FSub(a, b) == Frac(a.n * b.d - b.n * a.d, a.d * b.d)
FMul(a, b) == Frac(a.n * b.n, a.d * b.d)
FHalf(a) == Frac(a.n, 2 * a.d)
FLe(a, b) == a.n * b.d <= b.n * a.d
FMin(a, b) == IF FLe(a, b) THEN a ELSE b

----------------------------------------------------------------------------
(* str.strip("()"): drop leading and trailing parentheses *)

Parens == {"(", ")"}

RECURSIVE LStrip(_)
LStrip(s) == IF s # <<>> /\ Head(s) \in Parens THEN LStrip(Tail(s)) ELSE s

RECURSIVE RStrip(_)
RStrip(s) ==
    IF s # <<>> /\ s[Len(s)] \in Parens THEN RStrip(SubSeq(s, 1, Len(s) - 1)) ELSE s

Strip(s) == RStrip(LStrip(s))

----------------------------------------------------------------------------
(* The template document *)

\* Field names given by position: page p (1-based), annotation i.
Letters == <<"a", "b", "c", "d", "e", "f">>
Digits == <<"1", "2", "3", "4", "5", "6">>
NameAt(p, i) == <<"T", Letters[p], Digits[i]>>

Num(v) == [num |-> TRUE, v |-> v]
NotNum == [num |-> FALSE, v |-> 0]

\* /Rect of the first and of the second widget of a page, in points.
GoodRect(i) == IF i = 1 THEN <<Num(50), Num(700), Num(250), Num(720)>>
               ELSE <<Num(300), Num(700), Num(500), Num(712)>>
BadRect == <<Num(50), Num(700), NotNum, Num(720)>>

AnnotKinds == {"text", "textv", "button", "link", "badrect", "noname", "norect"}

\* An annotation dictionary of the given kind at page p, position i.
MkAnnot(kind, p, i) ==
    [Subtype |-> IF kind = "link" THEN "/Link" ELSE "/Widget",
     FT      |-> IF kind = "button" THEN "/Btn"
                 ELSE IF kind = "link" THEN "" ELSE "/Tx",
     T       |-> IF kind \in {"link", "noname"} THEN <<>> ELSE NameAt(p, i),
     Rect    |-> IF kind = "norect" THEN <<>>
                 ELSE IF kind = "badrect" THEN BadRect ELSE GoodRect(i),
     V       |-> IF kind = "textv" THEN <<"(", "v", ")">>
                 ELSE IF kind = "button" THEN <<"O">> ELSE <<>>]

PortraitBox == <<0, 0, 595, 842>>

\* The dashed frame and the image slot of a page that shows no image.
NoFrame == [x |-> 0, y |-> 0, w |-> 0, h |-> 0]

NoImage == [drawn |-> FALSE, iw |-> 0, ih |-> 0,
            dx |-> FInt(0), dy |-> FInt(0), dw |-> FInt(0), dh |-> FInt(0)]

\* A page: its /MediaBox (<<>> when it cannot be resolved), whether its
\* objects can be written out, whether it has an /Annots key, the
\* annotations, and the text drawn onto it so far.
MkPage(p, mboxOk, hasAnnots, kinds) ==
    [id        |-> <<"template", p>>,
     mbox      |-> IF mboxOk THEN PortraitBox ELSE <<>>,
     serial    |-> TRUE,
     hasAnnots |-> hasAnnots,
     annots    |-> [i \in 1..Len(kinds) |-> MkAnnot(kinds[i], p, i)],
     texts     |-> <<>>,
     header    |-> <<>>,
     frame     |-> NoFrame,
     image     |-> NoImage]

----------------------------------------------------------------------------
(* Field extraction: app.py lines 215-238 *)

AllNumeric(rect) == \A i \in 1..Len(rect) : rect[i].num

\* [float(x) for x in rect]
RectF(rect) == [i \in 1..Len(rect) |-> rect[i].v]

\* One annotation of page page_idx (0-based): the descriptors it appends.
ExtractAnnot(obj, page_idx) ==
    IF obj.Subtype # "/Widget" THEN <<>>
    ELSE IF obj.T # <<>> /\ obj.Rect # <<>>
         THEN IF AllNumeric(obj.Rect)
              THEN << [name  |-> Strip(obj.T),
                       value |-> IF obj.V # <<>> THEN Strip(obj.V) ELSE <<>>,
                       page  |-> page_idx,
                       rect  |-> RectF(obj.Rect)] >>
              ELSE <<>>
         ELSE <<>>

RECURSIVE ExtractAnnots(_, _)
ExtractAnnots(annots, page_idx) ==
    IF annots = <<>> THEN <<>>
    ELSE ExtractAnnot(Head(annots), page_idx) \o ExtractAnnots(Tail(annots), page_idx)

\* annots = page.get("/Annots"); if not annots: continue
ExtractPage(page, page_idx) ==
    IF ~page.hasAnnots \/ page.annots = <<>> THEN <<>>
    ELSE ExtractAnnots(page.annots, page_idx)

RECURSIVE ExtractFrom(_, _)
ExtractFrom(pages, k) ==
    IF k > Len(pages) THEN <<>>
    ELSE ExtractPage(pages[k], k - 1) \o ExtractFrom(pages, k + 1)

ExtractFields(pages) == ExtractFrom(pages, 1)

----------------------------------------------------------------------------
(* Value overlay: _draw_values_overlay, app.py lines 70-89 *)

FontMaxQ == 42      \* 10.5 pt in quarter points
FontMinQ == 32      \*  8.0 pt
PadQ == 8           \*  2 pt, the left padding of the text

ToQ(pt) == 4 * pt

\* Faulty variant: min and max exchanged
FontSize_swapped(y1, y2) == Max(FontMaxQ, Min(FontMinQ, 2 * (y2 - y1)))

\* min(10.5, max(8.0, (y2 - y1) * 0.50)), rectangle in points, result in
\* quarter points (h * 0.50 pt = 2 * h quarter points).
FontSize(y1, y2) == Min(FontMaxQ, Max(FontMinQ, 2 * (y2 - y1)))

\* Faulty variant: the empty value is drawn as well
FieldDraws_noskip(f) ==
    << [font |-> FontSize(f.rect[2], f.rect[4]),
        x    |-> ToQ(f.rect[1]) + PadQ,
        y    |-> ToQ(f.rect[2]) + (ToQ(f.rect[4] - f.rect[2]) - FontSize(f.rect[2], f.rect[4])) \div 2,
        text |-> Strip(f.value)] >>

\* The canvas operations one field adds: nothing for a falsy value, else one
\* drawString at (x1 + 2, y1 + (y2 - y1 - font_size) / 2).
FieldDraws(f) ==
    IF f.value = <<>> THEN <<>>
    ELSE LET x1 == f.rect[1]
             y1 == f.rect[2]
             y2 == f.rect[4]
             font_size == FontSize(y1, y2)
         IN  << [font |-> font_size,
                 x    |-> ToQ(x1) + PadQ,
                 y    |-> ToQ(y1) + (ToQ(y2 - y1) - font_size) \div 2,
                 text |-> Strip(f.value)] >>

RECURSIVE OverlayCode(_)
OverlayCode(fs) ==
    IF fs = <<>> THEN <<>> ELSE FieldDraws(Head(fs)) \o OverlayCode(Tail(fs))

\* Canvas.save(): the current page is emitted (showPage) only if something
\* was drawn on it; a canvas nothing was drawn on is saved with no page.
CanvasSave(code, page_w, page_h) ==
    IF code = <<>> THEN <<>>
    ELSE << [w |-> page_w, h |-> page_h, texts |-> code] >>

\* The pages of the PdfReader that _draw_values_overlay returns.
DrawValuesOverlay(fields_on_page, page_w, page_h) ==
    CanvasSave(OverlayCode(fields_on_page), page_w, page_h)

----------------------------------------------------------------------------
(* Flattening: flatten_template_with_values, app.py lines 91-111 *)

PageSize(page) == <<page.mbox[3] - page.mbox[1], page.mbox[4] - page.mbox[2]>>

\* by_page.get(i): the fields whose page is i, in list order
ByPage(fs, i) == SelectSeq(fs, LAMBDA f : f.page = i)

Raised(msg) == [ok |-> FALSE, pages |-> <<>>, err |-> msg]
Returned(pages) == [ok |-> TRUE, pages |-> pages, err |-> ""]

\* if "/Annots" in page: page.pop("/Annots")
PopAnnots(page) == [page EXCEPT !.hasAnnots = FALSE, !.annots = <<>>]

\* One pass of the loop body for page i (0-based): the page added to the
\* writer, or the exception that leaves the function.
FlattenPage(page, i, fs) ==
    IF page.mbox = <<>> THEN Raised("mediabox")
    ELSE LET sz == PageSize(page)
             on == ByPage(fs, i)
         IN  IF on # <<>>
             THEN LET overlay == DrawValuesOverlay(on, sz[1], sz[2])
                  IN  IF overlay = <<>> THEN Raised("index out of range")
                      ELSE Returned(<< PopAnnots(
                               [page EXCEPT !.texts = @ \o overlay[1].texts]) >>)
             ELSE Returned(<< PopAnnots(page) >>)

RECURSIVE FlattenFrom(_, _, _, _)
FlattenFrom(pages, k, fs, acc) ==
    IF k > Len(pages) THEN Returned(acc)
    ELSE LET r == FlattenPage(pages[k], k - 1, fs)
         IN  IF r.ok THEN FlattenFrom(pages, k + 1, fs, acc \o r.pages) ELSE r

FlattenTemplateWithValues(template_bytes, fs) ==
    FlattenFrom(template_bytes, 1, fs, <<>>)

----------------------------------------------------------------------------
(* Merge: merge_writer_and_annexes, app.py lines 178-191 *)

RECURSIVE AnnexPages(_)
AnnexPages(pdfs) ==
    IF pdfs = <<>> THEN <<>> ELSE Head(pdfs) \o AnnexPages(Tail(pdfs))

\* Faulty variant: the annex pages are added before the writer's pages
MergeWriterAndAnnexes_annexfirst(w, pdfs) ==
    IF \E k \in 1..Len(w) : ~w[k].serial THEN Raised("write")
    ELSE Returned(AnnexPages(pdfs) \o w)

\* The bytes returned, or the exception of final.write(out) when a page
\* cannot be written out.
MergeWriterAndAnnexes(w, pdfs) ==
    LET final == w \o AnnexPages(pdfs)
    IN  IF \E k \in 1..Len(final) : ~final[k].serial THEN Raised("write")
        ELSE Returned(final)

----------------------------------------------------------------------------
(* os.path.splitext(title)[0], as posixpath computes it *)

\* str.rfind, 1-based, 0 when the character does not occur
RFind(p, c) ==
    LET hits == {i \in 1..Len(p) : p[i] = c}
    IN  IF hits = {} THEN 0 ELSE CHOOSE i \in hits : \A j \in hits : j <= i

\* Faulty variant: cut at the first dot of the title
SplitextRoot_firstdot(p) ==
    LET dots == {i \in 1..Len(p) : p[i] = "."}
    IN  IF dots = {} THEN p
        ELSE SubSeq(p, 1, (CHOOSE i \in dots : \A j \in dots : i <= j) - 1)

SplitextRoot(p) ==
    LET sepIndex == RFind(p, "/")
        dotIndex == RFind(p, ".")
    IN  IF dotIndex > sepIndex
           /\ \E k \in (sepIndex + 1)..(dotIndex - 1) : p[k] # "."
        THEN SubSeq(p, 1, dotIndex - 1)
        ELSE p

----------------------------------------------------------------------------
(* Annex page: build_annex_page, app.py lines 113-176 *)

PageWU == 8910       \* landscape(A4) width, 29.7 cm
PageHU == 6300       \* landscape(A4) height, 21.0 cm
MarginU == 450       \* 1.5 cm
TextTopU == 900      \* 3.0 cm from the top margin to the first paragraph line
LeadingU == 127      \* 12 pt between paragraph lines
ImgGapU == 180       \* 0.6 cm between paragraph and image frame
BoxInsetXU == 90     \* 0.3 cm
BoxInsetYU == 240    \* 0.8 cm
BoxTrimWU == 180     \* 0.6 cm
ParagraphLines == 2  \* lines simpleSplit wraps EXPLANATION_PARA to (Helvetica 10)

\* y_text after the paragraph loop over n lines
YTextAfter(n) == PageHU - MarginU - TextTopU - LeadingU * n

\* The dashed image frame (box_x, box_y, box_w, box_h)
ImageBox(n) ==
    LET top_img_y == YTextAfter(n) - ImgGapU
        box_y     == MarginU + BoxInsetYU
    IN  [x |-> MarginU + BoxInsetXU,
         y |-> box_y,
         w |-> PageWU - 2 * MarginU - BoxTrimWU,
         h |-> top_img_y - box_y]

\* Faulty variant: the larger of the two ratios
FitScale_max(box, iw, ih) ==
    IF FLe(Frac(box.w, iw), Frac(box.h, ih)) THEN Frac(box.h, ih) ELSE Frac(box.w, iw)

\* scale = min(box_w / iw, box_h / ih)
FitScale(box, iw, ih) == FMin(Frac(box.w, iw), Frac(box.h, ih))

\* The placement handed to drawImage
PlaceImage(box, iw, ih) ==
    LET scale == FitScale(box, iw, ih)
        dw    == FMul(FInt(iw), scale)
        dh    == FMul(FInt(ih), scale)
    IN  [drawn |-> TRUE, iw |-> iw, ih |-> ih,
         dx |-> FAdd(FInt(box.x), FHalf(FSub(FInt(box.w), dw))),
         dy |-> FAdd(FInt(box.y), FHalf(FSub(FInt(box.h), dh))),
         dw |-> dw,
         dh |-> dh]

\* f"ANEXO - {title}" with title = os.path.splitext(title)[0]; the fixed
\* prefix (with its dash) is the single token "ANEXO"
AnnexHeader(title) == <<"ANEXO">> \o SplitextRoot(title)

\* The pages of the PDF build_annex_page returns (showPage, then save): one.
BuildAnnexPage(image, title, n) ==
    << [id        |-> <<"annex", image.key>>,
        mbox      |-> <<0, 0, PageWU, PageHU>>,
        serial    |-> TRUE,
        hasAnnots |-> FALSE,
        annots    |-> <<>>,
        texts     |-> <<>>,
        header    |-> AnnexHeader(title),
        frame     |-> ImageBox(n),
        image     |-> PlaceImage(ImageBox(n), image.iw, image.ih)] >>

----------------------------------------------------------------------------
(* Inputs of the model *)

\* Pages a template is built from: no /Annots, one text widget, two text
\* widgets, a link annotation only, a /MediaBox that cannot be resolved, a
\* page whose objects cannot be written out.
PageKinds == {"plain", "one", "two", "link", "nobox", "unwritable"}

KindAnnots(kind) ==
    IF kind = "one" THEN <<"text">>
    ELSE IF kind = "two" THEN <<"text", "text">>
    ELSE IF kind = "link" THEN <<"link">>
    ELSE <<>>

TemplateOf(kinds) ==
    [p \in 1..Len(kinds) |->
        [MkPage(p, kinds[p] # "nobox", kinds[p] \in {"one", "two", "link"},
                KindAnnots(kinds[p]))
            EXCEPT !.serial = (kinds[p] # "unwritable")]]

Templates(n) == {TemplateOf(ks) : ks \in NonEmptySeqsUpTo(PageKinds, n)}

\* Templates of the extraction scan: any annotations, /Annots present or not.
ScanPageSpecs == BOOLEAN \X SeqsUpTo(AnnotKinds, MaxAnnots)

ScanTemplateOf(specs) ==
    [p \in 1..Len(specs) |-> MkPage(p, TRUE, specs[p][1], specs[p][2])]

ScanTemplates == {ScanTemplateOf(sp) : sp \in NonEmptySeqsUpTo(ScanPageSpecs, ScanPages)}

\* Text a user may leave in an input
ValueChoices == {<<>>, <<"a">>}

FieldNames(fs) == {fs[i].name : i \in 1..Len(fs)}

\* An uploaded file: its name, whether PIL opens and converts it, its pixels.
UploadAt(i, ok) ==
    [name |-> <<"p", Digits[i], ".", "j">>,
     ok   |-> ok,
     key  |-> i,
     iw   |-> 4,
     ih   |-> 3]

Uploads(n) == {[i \in 1..Len(oks) |-> UploadAt(i, oks[i])] : oks \in SeqsUpTo(BOOLEAN, n)}

ImageBound == IF track THEN ReplayImages ELSE MaxImages

NoOutcome == [kind |-> "none", doc |-> <<>>, err |-> ""]

\* st.download_button(..., data=final_bytes, ...)
Download(doc) == [kind |-> "download", doc |-> doc, err |-> ""]

\* Faulty variant: the except branch offers what was built so far for download
ErrorShown_partial(msg) == [kind |-> "download", doc |-> writer, err |-> msg]

\* except Exception as e: st.error(f"... {e}")
ErrorShown(msg) == [kind |-> "error", doc |-> <<>>, err |-> msg]

NoFirst == [set |-> FALSE, tpl |-> <<>>, vals |-> <<>>, imgs |-> <<>>,
            geom |-> <<>>, out |-> NoOutcome]

\* What of the fields a request cannot choose: name, page and rectangle
Geometry(fs) ==
    [i \in 1..Len(fs) |-> [name |-> fs[i].name, page |-> fs[i].page, rect |-> fs[i].rect]]

\* History: the first finished request is remembered
Recorded(out) ==
    IF track /\ ~first.set
    THEN [set |-> TRUE, tpl |-> template, vals |-> ui_values, imgs |-> images_up,
          geom |-> Geometry(fields), out |-> out]
    ELSE first

----------------------------------------------------------------------------
(* The script: one run per interaction, app.py lines 197-283 *)

\* for f in fields: f["value"] = ui_values.get(f["name"], "")
InjectValues(fs, vals) ==
    [i \in 1..Len(fs) |->
        [fs[i] EXCEPT !.value = IF fs[i].name \in DOMAIN vals
                                THEN vals[fs[i].name] ELSE <<>>]]

\* ui_values[f["name"]] = text_input(label, value=default, ...) before the
\* user types anything
DefaultValues(fs) ==
    [n \in FieldNames(fs) |->
        fs[CHOOSE i \in 1..Len(fs) :
              /\ fs[i].name = n
              /\ \A j \in 1..Len(fs) : fs[j].name = n => j <= i].value]

\* annex_pdfs: List[bytes] = []
NewAnnexList == <<>>

\* One loop body of the annex loop: the list after it
AnnexListAfter(pdfs, up) ==
    IF up.ok THEN Append(pdfs, BuildAnnexPage(up, up.name, ParagraphLines))
    ELSE pdfs

otherVars == <<ov_in, ov_out, an_in, an_out>>

\* Every run starts in a fresh namespace: nothing a handler bound in an
\* earlier run is there.
FreshRun ==
    /\ writer' = <<>>
    /\ annex_pdfs' = <<>>
    /\ idx' = 1
    /\ outcome' = NoOutcome

\* Faulty variant: the page edits land on the document every run reads
TemplateAfterFlatten_shared(template_bytes, r) == r.pages

\* flatten_template_with_values parses template_bytes into a reader of its
\* own; merge_page and pop("/Annots") edit that reader's pages, and the bytes
\* the next run reads are what they were.
TemplateAfterFlatten(template_bytes, r) == template_bytes

\* A run without the button: the template is read, its fields extracted and
\* the inputs rendered.
ScriptTop ==
    /\ pc \in {"start", "done", "error"}
    /\ fields' = ExtractFields(template)
    /\ ui_values' = DefaultValues(ExtractFields(template))
    /\ images_up' = <<>>
    /\ FreshRun
    /\ pc' = "loaded"
    /\ UNCHANGED <<template, track, first, otherVars>>

\* The run started by the button: fields are extracted afresh, the typed
\* values injected.
PressGenerate ==
    /\ pc = "loaded"
    /\ LET fs == ExtractFields(template)
       IN  \E vals \in [FieldNames(fs) -> ValueChoices], imgs \in Uploads(ImageBound) :
              /\ ui_values' = vals
              /\ images_up' = imgs
              /\ fields' = InjectValues(fs, vals)
    /\ FreshRun
    /\ pc' = "flatten"
    /\ UNCHANGED <<template, track, first, otherVars>>

\* writer = flatten_template_with_values(template_bytes, fields)
FlattenOk ==
    /\ pc = "flatten"
    /\ LET r == FlattenTemplateWithValues(template, fields)
       IN  /\ r.ok
           /\ writer' = r.pages
           /\ template' = TemplateAfterFlatten(template, r)
    /\ annex_pdfs' = NewAnnexList
    /\ idx' = 1
    /\ pc' = "annex"
    /\ UNCHANGED <<fields, ui_values, images_up, outcome, track, first, otherVars>>

\* ... or it raises, and the handler's except reports the message
FlattenRaises ==
    /\ pc = "flatten"
    /\ LET r == FlattenTemplateWithValues(template, fields)
       IN  /\ ~r.ok
           /\ outcome' = ErrorShown(r.err)
           /\ first' = Recorded(ErrorShown(r.err))
    /\ pc' = "error"
    /\ UNCHANGED <<template, fields, ui_values, images_up, writer, annex_pdfs, idx,
                   track, otherVars>>

\* for up in images_up: try ... except Exception: pass
AnnexStep ==
    /\ pc = "annex"
    /\ idx <= Len(images_up)
    /\ annex_pdfs' = AnnexListAfter(annex_pdfs, images_up[idx])
    /\ idx' = idx + 1
    /\ UNCHANGED <<template, fields, ui_values, images_up, pc, writer, outcome,
                   track, first, otherVars>>

\* final_bytes = merge_writer_and_annexes(writer, annex_pdfs); download
MergeOk ==
    /\ pc = "annex"
    /\ idx > Len(images_up)
    /\ LET r == MergeWriterAndAnnexes(writer, annex_pdfs)
       IN  /\ r.ok
           /\ outcome' = Download(r.pages)
           /\ first' = Recorded(Download(r.pages))
    /\ pc' = "done"
    /\ UNCHANGED <<template, fields, ui_values, images_up, writer, annex_pdfs, idx,
                   track, otherVars>>

\* ... or the merge raises, and the handler's except reports the message
MergeRaises ==
    /\ pc = "annex"
    /\ idx > Len(images_up)
    /\ LET r == MergeWriterAndAnnexes(writer, annex_pdfs)
       IN  /\ ~r.ok
           /\ outcome' = ErrorShown(r.err)
           /\ first' = Recorded(ErrorShown(r.err))
    /\ pc' = "error"
    /\ UNCHANGED <<template, fields, ui_values, images_up, writer, annex_pdfs, idx,
                   track, otherVars>>

IdleOthers ==
    /\ ov_in = <<>>
    /\ ov_out = [done |-> FALSE, pages |-> <<>>]
    /\ an_in = [iw |-> 1, ih |-> 1, title |-> <<>>, n |-> 1]
    /\ an_out = [done |-> FALSE, pages |-> <<>>]

IdlePipe(tpl) ==
    /\ template = tpl
    /\ fields = <<>>
    /\ ui_values = <<>>
    /\ images_up = <<>>
    /\ pc = "start"
    /\ writer = <<>>
    /\ annex_pdfs = <<>>
    /\ idx = 1
    /\ outcome = NoOutcome
    /\ first = NoFirst

Init ==
    /\ \E tpl \in Templates(MaxPages) : IdlePipe(tpl)
    /\ track = FALSE
    /\ IdleOthers

Next ==
    \/ ScriptTop
    \/ PressGenerate
    \/ FlattenOk
    \/ FlattenRaises
    \/ AnnexStep
    \/ MergeOk
    \/ MergeRaises

Spec == Init /\ [][Next]_vars

\* The same script with the first finished request remembered
InitReplay ==
    /\ \E tpl \in Templates(ReplayPages) : IdlePipe(tpl)
    /\ track = TRUE
    /\ IdleOthers

SpecReplay == InitReplay /\ [][Next]_vars

\* The script top alone, over templates with every kind of annotation
InitExtract ==
    /\ \E tpl \in ScanTemplates : IdlePipe(tpl)
    /\ track = FALSE
    /\ IdleOthers

NextExtract == ScriptTop

SpecExtract == InitExtract /\ [][NextExtract]_vars

----------------------------------------------------------------------------
(* _draw_values_overlay on its own *)

\* Rectangle heights in points: below, inside and above the clamp range
OverlayHeights == {12, 18, 20, 21, 40}

\* field values: empty, plain, and one that strip("()") empties
OverlayValues == {<<>>, <<"a">>, <<"(", ")">>}

OverlayFieldChoices ==
    {[name |-> <<"T">>, value |-> v, page |-> 0, rect |-> <<50, 700, 250, 700 + h>>] :
        v \in OverlayValues, h \in OverlayHeights}

InitOverlay ==
    /\ IdlePipe(<<>>)
    /\ track = FALSE
    /\ ov_in \in SeqsUpTo(OverlayFieldChoices, MaxFields)
    /\ ov_out = [done |-> FALSE, pages |-> <<>>]
    /\ an_in = [iw |-> 1, ih |-> 1, title |-> <<>>, n |-> 1]
    /\ an_out = [done |-> FALSE, pages |-> <<>>]

OverlayCall ==
    /\ ~ov_out.done
    /\ ov_out' = [done  |-> TRUE,
                  pages |-> DrawValuesOverlay(ov_in, PortraitBox[3], PortraitBox[4])]
    /\ UNCHANGED <<pipeVars, ov_in, an_in, an_out>>

NextOverlay == OverlayCall

SpecOverlay == InitOverlay /\ [][NextOverlay]_vars

----------------------------------------------------------------------------
(* build_annex_page on its own *)

TitleChars == {"a", ".", "/"}

SitePhoto == <<"s", "i", "t", "e", "_", "p", "h", "o", "t", "o", ".", "j", "p", "g">>

Titles == SeqsUpTo(TitleChars, MaxTitle) \cup {SitePhoto}

InitAnnex ==
    /\ IdlePipe(<<>>)
    /\ track = FALSE
    /\ ov_in = <<>>
    /\ ov_out = [done |-> FALSE, pages |-> <<>>]
    /\ an_in \in [iw : 1..MaxDim, ih : 1..MaxDim, title : Titles, n : 1..MaxLines]
    /\ an_out = [done |-> FALSE, pages |-> <<>>]

AnnexCall ==
    /\ ~an_out.done
    /\ an_out' = [done  |-> TRUE,
                  pages |-> BuildAnnexPage([key |-> 1, iw |-> an_in.iw, ih |-> an_in.ih],
                                           an_in.title, an_in.n)]
    /\ UNCHANGED <<pipeVars, ov_in, ov_out, an_in>>

NextAnnex == AnnexCall

SpecAnnex == InitAnnex /\ [][NextAnnex]_vars

----------------------------------------------------------------------------
(* Claims about _draw_values_overlay, under SpecOverlay *)

OverlayTexts == IF ov_out.pages = <<>> THEN <<>> ELSE ov_out.pages[1].texts

NonEmptyIn == SelectSeq(ov_in, LAMBDA f : f.value # <<>>)

\* C5: the overlay draws exactly one text item for every field whose value is
\* non-empty, in field order, and none for a field whose value is empty: the
\* number of draw calls is the number of fields with a non-empty value.
C5_OneDrawPerNonEmptyField ==
    ov_out.done =>
        /\ Len(OverlayTexts) = Cardinality({i \in 1..Len(ov_in) : ov_in[i].value # <<>>})
        /\ \A k \in 1..Len(OverlayTexts) :
              /\ k <= Len(NonEmptyIn)
              /\ OverlayTexts[k].x = 4 * NonEmptyIn[k].rect[1] + 8
              /\ OverlayTexts[k].text = Strip(NonEmptyIn[k].value)

C5_Witness ==
    /\ ov_out.done
    /\ Len(ov_in) = 3
    /\ ov_in[1].value # <<>>
    /\ ov_in[2].value = <<>>
    /\ ov_in[3].value = <<"(", ")">>
    /\ Len(OverlayTexts) = 2

\* C6: the font size of every drawn item is clamp(height * 0.50, 8.0, 10.5)
\* of its field's rectangle, so it lies in [8.0, 10.5]; a 20-point-tall box
\* gives 10.0 (sizes in quarter points: 32, 42, 40).
C6_FontSizeClamped ==
    ov_out.done =>
        \A k \in 1..Len(OverlayTexts) :
            /\ k <= Len(NonEmptyIn)
            /\ LET h    == NonEmptyIn[k].rect[4] - NonEmptyIn[k].rect[2]
                   font == OverlayTexts[k].font
               IN  /\ 32 <= font /\ font <= 42
                   /\ (2 * h < 32) => font = 32
                   /\ (2 * h > 42) => font = 42
                   /\ (32 <= 2 * h /\ 2 * h <= 42) => font = 2 * h
                   /\ (h = 20) => font = 40

C6_Witness ==
    /\ ov_out.done
    /\ Len(OverlayTexts) = 3
    /\ OverlayTexts[1].font = 40
    /\ NonEmptyIn[1].rect[4] - NonEmptyIn[1].rect[2] = 20
    /\ OverlayTexts[2].font = 32
    /\ OverlayTexts[3].font = 42

----------------------------------------------------------------------------
(* Claims about build_annex_page, under SpecAnnex *)

AnnexPage == an_out.pages[1]

FEq(a, b) == a.n * b.d = b.n * a.d

\* C7: the image is drawn with the one factor min(frame_w / iw, frame_h / ih)
\* on both sides, and its box lies inside the dashed frame, centred in it
\* horizontally and vertically.
C7_ImageFitsFrame ==
    an_out.done =>
        LET im == AnnexPage.image
            fr == AnnexPage.frame
            x0 == FInt(fr.x)
            y0 == FInt(fr.y)
            x1 == FInt(fr.x + fr.w)
            y1 == FInt(fr.y + fr.h)
        IN  /\ im.drawn
            /\ fr.w > 0 /\ fr.h > 0
            \* one factor on both sides
            /\ FEq(FMul(im.dw, FInt(an_in.ih)), FMul(im.dh, FInt(an_in.iw)))
            \* and it is the fit factor: the largest that stays inside
            /\ FLe(im.dw, FInt(fr.w)) /\ FLe(im.dh, FInt(fr.h))
            /\ FEq(im.dw, FInt(fr.w)) \/ FEq(im.dh, FInt(fr.h))
            \* contained
            /\ FLe(x0, im.dx) /\ FLe(FAdd(im.dx, im.dw), x1)
            /\ FLe(y0, im.dy) /\ FLe(FAdd(im.dy, im.dh), y1)
            \* centred
            /\ FEq(FSub(im.dx, x0), FSub(x1, FAdd(im.dx, im.dw)))
            /\ FEq(FSub(im.dy, y0), FSub(y1, FAdd(im.dy, im.dh)))

C7_Witness ==
    /\ an_out.done
    /\ an_in.iw = 5 /\ an_in.ih = 2
    /\ FEq(AnnexPage.image.dw, FInt(AnnexPage.frame.w))
    /\ ~FLe(FInt(AnnexPage.frame.h), AnnexPage.image.dh)
    /\ ~FLe(AnnexPage.image.dy, FInt(AnnexPage.frame.y))

ShownTitle == Tail(AnnexPage.header)

TitleRest == SubSeq(an_in.title, Len(ShownTitle) + 1, Len(an_in.title))

\* A title has an extension when its last path component holds a dot that
\* some character other than a dot precedes within the component.
HasExtension(t) ==
    \E i, j \in 1..Len(t) :
        /\ i < j
        /\ t[j] = "."
        /\ t[i] \notin {".", "/"}
        /\ \A k \in i..Len(t) : t[k] # "/"

\* C8: the header is "ANEXO - " followed by the title without its trailing
\* extension: what is cut is the last dot of the file name and what follows
\* it; a title with an extension loses it, a title without is unchanged, and
\* "site_photo.jpg" is shown as "site_photo".
C8_TitleWithoutExtension ==
    an_out.done =>
        /\ Head(AnnexPage.header) = "ANEXO"
        /\ Len(ShownTitle) <= Len(an_in.title)
        /\ ShownTitle = SubSeq(an_in.title, 1, Len(ShownTitle))
        /\ TitleRest # <<>> =>
              /\ TitleRest[1] = "."
              /\ \A i \in 2..Len(TitleRest) : TitleRest[i] \notin {".", "/"}
        /\ HasExtension(an_in.title) <=> TitleRest # <<>>
        /\ (\A i \in 1..Len(an_in.title) : an_in.title[i] # ".") => ShownTitle = an_in.title
        /\ an_in.title = SitePhoto =>
              ShownTitle = <<"s", "i", "t", "e", "_", "p", "h", "o", "t", "o">>

C8_Witness ==
    /\ an_out.done
    /\ an_in.title = SitePhoto
    /\ ShownTitle = <<"s", "i", "t", "e", "_", "p", "h", "o", "t", "o">>

----------------------------------------------------------------------------
(* Claims about the generate request, under Spec *)

\* The template is a well-formed document: every page box resolves and
\* every page can be written out.
SoundTemplate ==
    \A p \in 1..Len(template) : template[p].mbox # <<>> /\ template[p].serial

OkUploads == SelectSeq(images_up, LAMBDA up : up.ok)

\* C1 (as claimed): whatever images fail to open, a request on a well-formed
\* template does not abort and ends with a document: the template pages in
\* order, then one annex page per image that opened, in upload order.
C1_Claim ==
    SoundTemplate =>
        /\ pc # "error"
        /\ pc = "done" =>
              /\ outcome.kind = "download"
              /\ Len(outcome.doc) = Len(template) + Len(OkUploads)
              /\ \A p \in 1..Len(template) : outcome.doc[p].id = template[p].id
              /\ \A j \in 1..Len(OkUploads) :
                    outcome.doc[Len(template) + j].id = <<"annex", OkUploads[j].key>>

\* C2: the merged document is the K writer pages in order followed by the
\* single pages of the M annex blobs in list order: K + M pages, none dropped,
\* repeated or moved.
C2_MergeKeepsOrder ==
    pc = "done" =>
        LET K   == Len(writer)
            M   == Len(annex_pdfs)
            doc == outcome.doc
        IN  /\ \A j \in 1..M : Len(annex_pdfs[j]) = 1
            /\ Len(doc) = K + M
            /\ \A k \in 1..K : doc[k] = writer[k]
            /\ \A j \in 1..M : doc[K + j] = annex_pdfs[j][1]
            /\ \A a, b \in 1..Len(doc) : a # b => doc[a].id # doc[b].id

C2_Witness ==
    /\ pc = "done"
    /\ Len(writer) = 2
    /\ Len(annex_pdfs) = 2
    /\ Len(outcome.doc) = 4

\* C3 (as claimed): for a well-formed template and any field list, flattening
\* returns a writer with the template's pages in order, none of them with an
\* annotation array.
C3_Claim ==
    SoundTemplate =>
        /\ pc # "error"
        /\ pc \in {"annex", "done"} =>
              /\ Len(writer) = Len(template)
              /\ \A p \in 1..Len(writer) :
                    /\ writer[p].id = template[p].id
                    /\ ~writer[p].hasAnnots
                    /\ writer[p].annots = <<>>

PastFlatten == pc \in {"annex", "done", "error"}

\* C4: when flattening or the merge raises, the request ends with the error
\* message shown and no download; a download is offered only once flattening,
\* the annex loop and the merge have all completed, and it is the whole
\* merged document.
C4_ErrorMeansNoDownload ==
    /\ pc = "error" =>
          /\ outcome.kind = "error"
          /\ outcome.doc = <<>>
          /\ outcome.err # ""
    /\ (PastFlatten /\ ~FlattenTemplateWithValues(template, fields).ok) =>
          /\ pc = "error"
          /\ outcome.err = FlattenTemplateWithValues(template, fields).err
    /\ (pc \in {"done", "error"} /\ \E p \in 1..Len(writer) : ~writer[p].serial) =>
          /\ pc = "error"
          /\ outcome.err = "write"
    /\ pc \in {"loaded", "flatten", "annex"} => outcome.kind = "none"
    /\ outcome.kind = "download" =>
          /\ pc = "done"
          /\ FlattenTemplateWithValues(template, fields).ok
          /\ \A p \in 1..Len(outcome.doc) : outcome.doc[p].serial
          /\ idx = Len(images_up) + 1
          /\ Len(outcome.doc) = Len(writer) + Len(annex_pdfs)
          /\ Len(writer) = Len(template)

C4_Witness ==
    /\ pc = "error"
    /\ outcome.kind = "error"
    /\ outcome.err = "mediabox"
    /\ Len(images_up) = 2

----------------------------------------------------------------------------
(* Claim about repeated requests, under SpecReplay *)

----------------------------------------------------------------------------
(* Claim about the extraction scan, under SpecExtract *)

\* Positions <<page, annotation>> of the text-type widgets that carry a name
\* and a rectangle whose coordinates are all numbers.
TextWidgets ==
    {q \in (1..Len(template)) \X (1..MaxAnnots) :
        /\ template[q[1]].hasAnnots
        /\ q[2] <= Len(template[q[1]].annots)
        /\ LET obj == template[q[1]].annots[q[2]]
           IN  /\ obj.Subtype = "/Widget"
               /\ obj.FT = "/Tx"
               /\ obj.T # <<>>
               /\ obj.Rect # <<>>
               /\ AllNumeric(obj.Rect)}

\* The position a descriptor was made from, by its name
PosOf(f) == CHOOSE q \in (1..Len(template)) \X (1..MaxAnnots) : NameAt(q[1], q[2]) = f.name

\* C10 (as claimed): the scan yields exactly one descriptor for each text-type
\* widget with a name and a numeric rectangle, in page order and then
\* annotation order, each with a valid page index; the others are skipped.
C10_Claim ==
    pc = "loaded" =>
        /\ Len(fields) = Cardinality(TextWidgets)
        /\ \A k \in 1..Len(fields) :
              /\ PosOf(fields[k]) \in TextWidgets
              /\ fields[k].page = PosOf(fields[k])[1] - 1
              /\ fields[k].page \in 0..(Len(template) - 1)
        /\ \A k, l \in 1..Len(fields) :
              k < l => \/ PosOf(fields[k])[1] < PosOf(fields[l])[1]
                       \/ /\ PosOf(fields[k])[1] = PosOf(fields[l])[1]
                          /\ PosOf(fields[k])[2] < PosOf(fields[l])[2]

====
